---- MODULE Spec2Model ----
(***************************************************************************)
(* Model of the Spreadsheet selection module of Tabulator                  *)
(* (src/js/modules/Spreadsheet/Spreadsheet.js): the Range geometry, the    *)
(* list of ranges, the `selecting` mode and the pointer / page handlers.   *)
(*                                                                         *)
(* Coordinates are the zero-based data coordinates of the source: data     *)
(* row r is the row at position r + 1 of the displayed page, data column c *)
(* is the column at index c + 1 of the column manager (index 0 being the   *)
(* row-header column inserted by initializeTable).                         *)
(***************************************************************************)
EXTENDS Integers, Sequences, FiniteSets, TLC

\* ------------------------------------------------------------------ bounds
NumRows == 2      \* rows of data loaded in the table
NumCols == 2      \* data columns (the row-header column not counted)
PageSize == 3     \* page size when the table is paginated
MaxRanges == 2    \* cap on the length of `ranges` (ctrl pointer-down guard)

VARIABLES
    ranges,      \* this.ranges: sequence of Range records, last one active
    selecting,   \* this.selecting: NotSelecting, "cell", "row", "column" or "all"
    paged,       \* whether table.getPageSize exists (pagination in use)
    page,        \* current page (1 when not paginated)
    setup,       \* what initialize() has done: subscriptions, row header, error
    painted,     \* the highlight classes last toggled on rows, columns and cells
    call,        \* a getSelectedData call of the host: its argument and result
    last,        \* history: the kind of the event delivered last
    gesture      \* history: the pointer gesture in progress

vars == <<ranges, selecting, paged, page, setup, painted, call, last, gesture>>

\* ------------------------------------------------------------- arithmetic
Min(a, b) == IF a <= b THEN a ELSE b

Max(a, b) == IF a >= b THEN a ELSE b

\* ------------------------------------------------------------------ Range
\* _updateMinMax that takes start for the minimum and end for the maximum.
_updateMinMax_startIsMin(range) ==
    [range EXCEPT !.minRow = range.start.row,
                  !.maxRow = range.end.row,
                  !.minCol = range.start.col,
                  !.maxCol = range.end.col]

_updateMinMax(range) ==
    [range EXCEPT !.minRow = Min(range.start.row, range.end.row),
                  !.maxRow = Max(range.start.row, range.end.row),
                  !.minCol = Min(range.start.col, range.end.col),
                  !.maxCol = Max(range.start.col, range.end.col)]

Range(row, col) ==
    _updateMinMax([start |-> [row |-> row, col |-> col],
                   end |-> [row |-> row, col |-> col],
                   minRow |-> 0, maxRow |-> 0, minCol |-> 0, maxCol |-> 0])

setStart(range, row, col) ==
    _updateMinMax([range EXCEPT !.start = [row |-> row, col |-> col]])

\* setEnd without the recomputation of the bounds.
setEnd_staleBounds(range, row, col) ==
    [range EXCEPT !.end = [row |-> row, col |-> col]]

setEnd(range, row, col) ==
    _updateMinMax([range EXCEPT !.end = [row |-> row, col |-> col]])

atTopLeft(range, row, col) == row = range.minRow /\ col = range.minCol

atBottomRight(range, row, col) == row = range.maxRow /\ col = range.maxCol

isInside(range, row, col) ==
    /\ range.minRow <= row
    /\ row <= range.maxRow
    /\ range.minCol <= col
    /\ col <= range.maxCol

isStartingAt(range, row, col) == range.start.row = row /\ range.start.col = col

withinRow(range, row) == row >= range.minRow /\ row <= range.maxRow

withinColumn(range, col) == col >= range.minCol /\ col <= range.maxCol

\* ------------------------------------------------- the grid collaborator
\* Number of pages of the paginated table.
NumPages == (NumRows + PageSize - 1) \div PageSize

\* Rows displayed on page p: row positions run 1..DisplayRows(p).
DisplayRows(isPaged, p) ==
    IF isPaged THEN Min(PageSize, NumRows - (p - 1) * PageSize) ELSE NumRows

\* columnManager.columns / getColumns(): the row header and the data columns.
ColumnsLength == NumCols + 1

\* An element handed to a handler.  type "column" is a column header, any
\* other element is a cell with its row position; index is the value of
\* columnManager.findColumnIndex for its column (0: the row-header column).
Cell(position, index) == [type |-> "cell", position |-> position, index |-> index]

Column(index) == [type |-> "column", position |-> 0, index |-> index]

NoElement == [type |-> "none", position |-> 0, index |-> 0]

findColumnIndex(element) == element.index

\* element.column.field === this.options("rowHeaderField")
isRowHeaderField(element) == element.index = 0

Cells(isPaged, p) ==
    {Cell(pos, i) : pos \in 1..DisplayRows(isPaged, p), i \in 0..NumCols}

Columns == {Column(i) : i \in 0..NumCols}

\* event.shiftKey / event.ctrlKey / event.metaKey of a pointer event
Events == [shiftKey : BOOLEAN, ctrlKey : BOOLEAN, metaKey : BOOLEAN]

NoKeys == [shiftKey |-> FALSE, ctrlKey |-> FALSE, metaKey |-> FALSE]

\* ------------------------------------------------------------ Spreadsheet
\* The value false of this.selecting (the modes are strings).
NotSelecting == "false"

getActiveRange(rs) == rs[Len(rs)]

\* withActiveRange that writes the first range of the list (this.ranges[0]).
withActiveRange_first(rs, range) == [rs EXCEPT ![1] = range]

\* The list rs with its active (last) range replaced by range: the source
\* mutates the Range object that getActiveRange returns.
withActiveRange(rs, range) == [rs EXCEPT ![Len(rs)] = range]

rowsPerPage(isPaged) == IF isPaged THEN PageSize ELSE NumRows

beginSelection(rs, element) ==
    LET range == getActiveRange(rs)
        row == element.position - 1
        col == findColumnIndex(element) - 1
    IN  IF element.type = "column"
        THEN withActiveRange(rs, setStart(range, 0, findColumnIndex(element) - 1))
        ELSE IF isRowHeaderField(element)
             THEN withActiveRange(rs, setStart(range, row, 0))
             ELSE withActiveRange(rs, setStart(range, row, col))

\* endSelection whose "row" branch takes the column of the element instead
\* of the last data column.
endSelection_rowTakesColumn(rs, mode, isPaged, element) ==
    LET range == getActiveRange(rs)
        row == element.position - 1
        col == findColumnIndex(element) - 1
        isRowHeader == isRowHeaderField(element)
    IN  IF element.type = "column"
        THEN IF mode = "column"
             THEN withActiveRange(rs, setEnd(range, rowsPerPage(isPaged) - 1,
                                             findColumnIndex(element) - 1))
             ELSE IF mode = "cell"
                  THEN withActiveRange(rs, setEnd(range, 0, findColumnIndex(element) - 1))
                  ELSE rs
        ELSE IF mode = "row"
             THEN withActiveRange(rs, setEnd(range, row, col))
             ELSE IF mode # "row" /\ isRowHeader
                  THEN withActiveRange(rs, setEnd(range, row, 0))
                  ELSE IF mode = "column"
                       THEN withActiveRange(rs, setEnd(range, rowsPerPage(isPaged) - 1, col))
                       ELSE withActiveRange(rs, setEnd(range, row, col))

\* endSelection whose column-header branch of mode "cell" keeps the row of the
\* end anchor instead of taking row 0.
endSelection_headerKeepsRow(rs, mode, isPaged, element) ==
    LET range == getActiveRange(rs)
        row == element.position - 1
        col == findColumnIndex(element) - 1
        isRowHeader == isRowHeaderField(element)
    IN  IF element.type = "column"
        THEN IF mode = "column"
             THEN withActiveRange(rs, setEnd(range, rowsPerPage(isPaged) - 1,
                                             findColumnIndex(element) - 1))
             ELSE IF mode = "cell"
                  THEN withActiveRange(rs, setEnd(range, range.end.row,
                                                  findColumnIndex(element) - 1))
                  ELSE rs
        ELSE IF mode = "row"
             THEN withActiveRange(rs, setEnd(range, row, ColumnsLength - 2))
             ELSE IF mode # "row" /\ isRowHeader
                  THEN withActiveRange(rs, setEnd(range, row, 0))
                  ELSE IF mode = "column"
                       THEN withActiveRange(rs, setEnd(range, rowsPerPage(isPaged) - 1, col))
                       ELSE withActiveRange(rs, setEnd(range, row, col))

endSelection(rs, mode, isPaged, element) ==
    LET range == getActiveRange(rs)
        row == element.position - 1
        col == findColumnIndex(element) - 1
        isRowHeader == isRowHeaderField(element)
    IN  IF element.type = "column"
        THEN IF mode = "column"
             THEN withActiveRange(rs, setEnd(range, rowsPerPage(isPaged) - 1,
                                             findColumnIndex(element) - 1))
             ELSE IF mode = "cell"
                  THEN withActiveRange(rs, setEnd(range, 0, findColumnIndex(element) - 1))
                  ELSE rs
        ELSE IF mode = "row"
             THEN withActiveRange(rs, setEnd(range, row, ColumnsLength - 2))
             ELSE IF mode # "row" /\ isRowHeader
                  THEN withActiveRange(rs, setEnd(range, row, 0))
                  ELSE IF mode = "column"
                       THEN withActiveRange(rs, setEnd(range, rowsPerPage(isPaged) - 1, col))
                       ELSE withActiveRange(rs, setEnd(range, row, col))

\* The mode _select stores in this.selecting for the element pressed.
selectMode(element) ==
    IF element.type = "column"
    THEN "column"
    ELSE IF isRowHeaderField(element) THEN "row" ELSE "cell"

\* _select whose plain branch keeps the list instead of replacing it.
_select_plainKeepsList(rs, isPaged, event, element) ==
    LET mode == selectMode(element)
    IN  IF event.shiftKey
        THEN endSelection(IF Len(rs) > 1 THEN SubSeq(rs, Len(rs), Len(rs)) ELSE rs,
                          mode, isPaged, element)
        ELSE IF event.ctrlKey
             THEN endSelection(beginSelection(Append(rs, Range(0, 0)), element),
                               mode, isPaged, element)
             ELSE endSelection(beginSelection(rs, element), mode, isPaged, element)

\* _select whose ctrl branch replaces the list instead of pushing onto it.
_select_ctrlReplacesList(rs, isPaged, event, element) ==
    LET mode == selectMode(element)
    IN  IF event.shiftKey
        THEN endSelection(IF Len(rs) > 1 THEN SubSeq(rs, Len(rs), Len(rs)) ELSE rs,
                          mode, isPaged, element)
        ELSE endSelection(beginSelection(<<Range(0, 0)>>, element),
                          mode, isPaged, element)

\* The ranges _select leaves, for the modifier keys of event.
_select(rs, isPaged, event, element) ==
    LET mode == selectMode(element)
    IN  IF event.shiftKey
        THEN endSelection(IF Len(rs) > 1 THEN SubSeq(rs, Len(rs), Len(rs)) ELSE rs,
                          mode, isPaged, element)
        ELSE IF event.ctrlKey
             THEN endSelection(beginSelection(Append(rs, Range(0, 0)), element),
                               mode, isPaged, element)
             ELSE endSelection(beginSelection(<<Range(0, 0)>>, element),
                               mode, isPaged, element)

selectingAllColumnsOfRow(rs, mode, row) ==
    IF mode = "all"
    THEN TRUE
    ELSE \E i \in 1..Len(rs) :
            /\ mode = "row"
            /\ rs[i].start.col = 0
            /\ rs[i].end.col = ColumnsLength - 2
            /\ withinRow(rs[i], row)

selectingAllRowsOfColumn(rs, mode, isPaged, col) ==
    IF mode = "all"
    THEN TRUE
    ELSE \E i \in 1..Len(rs) :
            /\ mode = "column"
            /\ rs[i].start.row = 0
            /\ rs[i].end.row = rowsPerPage(isPaged) - 1
            /\ withinColumn(rs[i], col)

\* ----------------------------------------------------------------- layout
\* The data rows displayed on page p and the columns of the column manager,
\* in data coordinates (column -1 is the row-header column).
DisplayedRows(isPaged, p) == 0..(DisplayRows(isPaged, p) - 1)

AllColumns == -1..(NumCols - 1)

\* The two classes layoutCell toggles on the cell at (row, col).
layoutCell(rs, row, col) ==
    [selected |-> \E i \in 1..Len(rs) : isInside(rs[i], row, col),
     only |-> /\ Len(rs) = 1
              /\ atTopLeft(rs[1], row, col)
              /\ atBottomRight(rs[1], row, col)]

\* The class layoutRow toggles on the row, and those of its cells.
layoutRow(rs, mode, row) ==
    [rowSelected |-> selectingAllColumnsOfRow(rs, mode, row),
     cells |-> [col \in AllColumns |-> layoutCell(rs, row, col)]]

\* The class layoutColumn toggles on the header of the column.
layoutColumn(rs, mode, isPaged, col) == selectingAllRowsOfColumn(rs, mode, isPaged, col)

\* The classes on the page after layoutElement has run.
layoutElement(rs, mode, isPaged, p) ==
    [rows |-> [row \in DisplayedRows(isPaged, p) |-> layoutRow(rs, mode, row)],
     columns |-> [col \in AllColumns |-> layoutColumn(rs, mode, isPaged, col)]]

\* The classes on the page once its cells have been rendered (cell-rendered
\* runs layoutCell) and no layoutElement has run yet.
cellsRendered(rs, isPaged, p) ==
    [rows |-> [row \in DisplayedRows(isPaged, p) |->
                  [rowSelected |-> FALSE,
                   cells |-> [col \in AllColumns |-> layoutCell(rs, row, col)]]],
     columns |-> [col \in AllColumns |-> FALSE]]

\* No class set anywhere: the module toggles nothing before it is attached.
Unpainted(isPaged, p) ==
    [rows |-> [row \in DisplayedRows(isPaged, p) |->
                  [rowSelected |-> FALSE,
                   cells |-> [col \in AllColumns |->
                                 [selected |-> FALSE, only |-> FALSE]]]],
     columns |-> [col \in AllColumns |-> FALSE]]

\* -------------------------------------------------------- getSelectedData
\* columnManager.columnsByIndex as the sequence of the columns' fields: the
\* field of the column at index i is i (0 is the rowHeaderField).
columnsByIndex == [i \in 1..ColumnsLength |-> i - 1]

\* Array.prototype.slice(from, to) on a sequence (indices from 0, negative
\* indices count from the end, both clamped to the length).
slice(array, from, to) ==
    LET n == Len(array)
        lo == IF from < 0 THEN Max(n + from, 0) ELSE Min(from, n)
        hi == IF to < 0 THEN Max(n + to, 0) ELSE Min(to, n)
    IN  SubSeq(array, lo + 1, hi)

\* table.getRows(): rows[r].getData() is the record of row r, whose value for
\* a field is written <<r, field>>.
RowsLength == NumRows

\* getSelectedData that does not skip the row-header column.
getSelectedData_keepsRowHeader(rs, given, argument) ==
    LET range == IF given THEN argument ELSE getActiveRange(rs)
        columns == slice(columnsByIndex, range.minCol, range.maxCol + 1)
        fields == {columns[k] : k \in 1..Len(columns)}
        count == Max(range.maxRow - range.minRow + 1, 0)
        data == [k \in 1..count |->
                    [field \in fields |-> <<range.minRow + k - 1, field>>]]
    IN  IF \E r \in range.minRow..range.maxRow : r < 0 \/ r >= RowsLength
        THEN [threw |-> TRUE, data |-> <<>>, rowCount |-> 0, columnCount |-> 0]
        ELSE [threw |-> FALSE, data |-> data, rowCount |-> Len(data),
              columnCount |-> Len(columns)]

\* getSelectedData(range): given is whether an argument was passed.  Reading
\* rows[r] past the rows of the table throws (getData of undefined).
getSelectedData(rs, given, argument) ==
    LET range == IF given THEN argument ELSE getActiveRange(rs)
        columns == slice(columnsByIndex, range.minCol + 1, range.maxCol + 2)
        fields == {columns[k] : k \in 1..Len(columns)}
        count == Max(range.maxRow - range.minRow + 1, 0)
        data == [k \in 1..count |->
                    [field \in fields |-> <<range.minRow + k - 1, field>>]]
    IN  IF \E r \in range.minRow..range.maxRow : r < 0 \/ r >= RowsLength
        THEN [threw |-> TRUE, data |-> <<>>, rowCount |-> 0, columnCount |-> 0]
        ELSE [threw |-> FALSE, data |-> data, rowCount |-> Len(data),
              columnCount |-> Len(columns)]

\* ------------------------------------------------------ history variables
\* last is the kind of the event the last handler ran for: "down", "move",
\* "up" or "page" ("init" before the first event).  gesture describes the
\* pointer gesture: phase "down" from a pointer-down until the next pointer-up
\* or page change, with the element and the keys of that pointer-down, the
\* row b of the last cell or row-header cell the pointer was over, and whether
\* every pointer-move so far was over a row-header cell; phase "up" after the
\* pointer-up that ended it; phase "page" from a page change until the next
\* pointer-down.
hoverRow(element, previous) ==
    IF element.type = "cell" THEN element.position - 1 ELSE previous

Pressed(event, element) ==
    [phase |-> "down", origin |-> element, event |-> event,
     b |-> hoverRow(element, -1), rowHeadersOnly |-> TRUE]

Ended(phase) ==
    [phase |-> phase, origin |-> NoElement, event |-> NoKeys,
     b |-> -1, rowHeadersOnly |-> TRUE]

Moved(element) ==
    IF gesture.phase = "down"
    THEN [gesture EXCEPT !.b = hoverRow(element, gesture.b),
                         !.rowHeadersOnly = gesture.rowHeadersOnly
                                            /\ element.type = "cell"
                                            /\ isRowHeaderField(element)]
    ELSE gesture

Released == IF gesture.phase = "page" THEN gesture ELSE Ended("up")

\* ---------------------------------------------------------------- actions
\* No getSelectedData call made.
NoResult == [threw |-> FALSE, data |-> <<>>, rowCount |-> 0, columnCount |-> 0]

NoCall == [state |-> "none", given |-> FALSE, range |-> Range(0, 0), result |-> NoResult]

\* The module as its constructor leaves it, on a table whose SelectRow module
\* is active or not and which is paginated or not.
Constructed ==
    /\ ranges = <<Range(0, 0)>>
    /\ selecting = NotSelecting
    /\ paged \in BOOLEAN
    /\ page = 1
    /\ setup \in {[initialized |-> FALSE, selectRow |-> x, subscribed |-> FALSE,
                   rowHeader |-> FALSE, error |-> FALSE] : x \in BOOLEAN}
    /\ painted = Unpainted(paged, page)
    /\ last = "init"
    /\ gesture = Ended("init")

Init == Constructed /\ call = NoCall

\* initialize that reports the clash with SelectRow and goes on.
initialize_noReturn ==
    /\ ~setup.initialized
    /\ setup' = [setup EXCEPT !.initialized = TRUE, !.subscribed = TRUE,
                              !.rowHeader = TRUE, !.error = setup.selectRow]
    /\ painted' = cellsRendered(ranges, paged, page)
    /\ UNCHANGED <<ranges, selecting, paged, page, call, last, gesture>>

\* initialize, followed by the first rendering of the table when the module
\* has attached itself (cell-rendered runs layoutCell on every cell).
initialize ==
    /\ ~setup.initialized
    /\ IF setup.selectRow
       THEN /\ setup' = [setup EXCEPT !.initialized = TRUE, !.error = TRUE]
            /\ UNCHANGED painted
       ELSE /\ setup' = [setup EXCEPT !.initialized = TRUE, !.subscribed = TRUE,
                                      !.rowHeader = TRUE]
            /\ painted' = cellsRendered(ranges, paged, page)
    /\ UNCHANGED <<ranges, selecting, paged, page, call, last, gesture>>

\* A pointer event on a table the module has not attached itself to: no
\* handler of the module runs.
unhandledPointerEvent(kind) ==
    /\ setup.initialized
    /\ ~setup.subscribed
    /\ kind \in {"down", "move", "up"}
    /\ last' = kind
    /\ UNCHANGED <<ranges, selecting, paged, page, setup, painted, call, gesture>>

\* A page change of such a table.
unhandledPageChange(p) ==
    /\ setup.initialized
    /\ ~setup.subscribed
    /\ paged
    /\ p \in 1..NumPages
    /\ page' = p
    /\ painted' = Unpainted(paged, p)
    /\ last' = "page"
    /\ UNCHANGED <<ranges, selecting, paged, setup, call, gesture>>

\* The ctrl branch of _select pushes a range: the list is capped at MaxRanges.
CanSelect(event) ==
    (~event.shiftKey /\ event.ctrlKey) => Len(ranges) < MaxRanges

\* The cell handleColumnMouseDown takes as bottomRightCell: the last cell of
\* the last column, the cell of the last row displayed on the page.
bottomRightCell(isPaged, p) == Cell(DisplayRows(isPaged, p), ColumnsLength - 1)

\* handleColumnMouseDown whose corner branch does not replace the list.
handleColumnMouseDown_cornerKeepsList(event, column) ==
    /\ setup.subscribed
    /\ column \in Columns
    /\ isRowHeaderField(column) \/ CanSelect(event)
    /\ IF isRowHeaderField(column)
       THEN LET topLeftCell == Cell(1, 1)
            IN  /\ selecting' = "all"
                /\ ranges' = endSelection(beginSelection(ranges, topLeftCell),
                                          "all", paged, bottomRightCell(paged, page))
       ELSE /\ selecting' = selectMode(column)
            /\ ranges' = _select(ranges, paged, event, column)
    /\ painted' = layoutElement(ranges', selecting', paged, page)
    /\ last' = "down"
    /\ gesture' = Pressed(event, column)
    /\ UNCHANGED <<paged, page, setup, call>>

handleColumnMouseDown(event, column) ==
    /\ setup.subscribed
    /\ column \in Columns
    /\ isRowHeaderField(column) \/ CanSelect(event)
    /\ IF isRowHeaderField(column)
       THEN LET topLeftCell == Cell(1, 1)
            IN  /\ selecting' = "all"
                /\ ranges' = endSelection(beginSelection(<<Range(0, 0)>>, topLeftCell),
                                          "all", paged, bottomRightCell(paged, page))
       ELSE /\ selecting' = selectMode(column)
            /\ ranges' = _select(ranges, paged, event, column)
    /\ painted' = layoutElement(ranges', selecting', paged, page)
    /\ last' = "down"
    /\ gesture' = Pressed(event, column)
    /\ UNCHANGED <<paged, page, setup, call>>

handleColumnMouseMove(column) ==
    /\ setup.subscribed
    /\ column \in Columns
    /\ IF isRowHeaderField(column) \/ selecting = NotSelecting
       THEN UNCHANGED <<ranges, painted>>
       ELSE /\ ranges' = endSelection(ranges, selecting, paged, column)
            /\ painted' = layoutElement(ranges', selecting, paged, page)
    /\ last' = "move"
    /\ gesture' = Moved(column)
    /\ UNCHANGED <<selecting, paged, page, setup, call>>

handleCellMouseDown(event, cell) ==
    /\ setup.subscribed
    /\ cell \in Cells(paged, page)
    /\ CanSelect(event)
    /\ selecting' = selectMode(cell)
    /\ ranges' = _select(ranges, paged, event, cell)
    /\ painted' = layoutElement(ranges', selecting', paged, page)
    /\ last' = "down"
    /\ gesture' = Pressed(event, cell)
    /\ UNCHANGED <<paged, page, setup, call>>

\* handleCellMouseMove without the early return on !this.selecting.
handleCellMouseMove_unguarded(cell) ==
    /\ setup.subscribed
    /\ cell \in Cells(paged, page)
    /\ ranges' = endSelection(ranges, selecting, paged, cell)
    /\ painted' = layoutElement(ranges', selecting, paged, page)
    /\ last' = "move"
    /\ gesture' = Moved(cell)
    /\ UNCHANGED <<selecting, paged, page, setup, call>>

handleCellMouseMove(cell) ==
    /\ setup.subscribed
    /\ cell \in Cells(paged, page)
    /\ IF selecting = NotSelecting
       THEN UNCHANGED <<ranges, painted>>
       ELSE /\ ranges' = endSelection(ranges, selecting, paged, cell)
            /\ painted' = layoutElement(ranges', selecting, paged, page)
    /\ last' = "move"
    /\ gesture' = Moved(cell)
    /\ UNCHANGED <<selecting, paged, page, setup, call>>

handleMouseUp ==
    /\ setup.subscribed
    /\ selecting' = NotSelecting
    /\ last' = "up"
    /\ gesture' = Released
    /\ UNCHANGED <<ranges, paged, page, setup, painted, call>>

\* handlePageChanged that empties the list.
handlePageChanged_emptiesList(p) ==
    /\ setup.subscribed
    /\ paged
    /\ p \in 1..NumPages
    /\ page' = p
    /\ ranges' = <<>>
    /\ painted' = layoutElement(ranges', selecting, paged, p)
    /\ last' = "page"
    /\ gesture' = Ended("page")
    /\ UNCHANGED <<selecting, paged, setup, call>>

\* handlePageChanged that leaves the ranges alone.
handlePageChanged_keepsRanges(p) ==
    /\ setup.subscribed
    /\ paged
    /\ p \in 1..NumPages
    /\ page' = p
    /\ painted' = layoutElement(ranges, selecting, paged, p)
    /\ last' = "page"
    /\ gesture' = Ended("page")
    /\ UNCHANGED <<ranges, selecting, paged, setup, call>>

\* page-changed is dispatched by the pagination of the table.
handlePageChanged(p) ==
    /\ setup.subscribed
    /\ paged
    /\ p \in 1..NumPages
    /\ page' = p
    /\ ranges' = <<Range(0, 0)>>
    /\ painted' = layoutElement(ranges', selecting, paged, p)
    /\ last' = "page"
    /\ gesture' = Ended("page")
    /\ UNCHANGED <<selecting, paged, setup, call>>

Next ==
    \/ initialize
    \/ \E kind \in {"down", "move", "up"} : unhandledPointerEvent(kind)
    \/ \E p \in 1..NumPages : unhandledPageChange(p)
    \/ \E event \in Events, column \in Columns : handleColumnMouseDown(event, column)
    \/ \E column \in Columns : handleColumnMouseMove(column)
    \/ \E event \in Events, cell \in Cells(paged, page) : handleCellMouseDown(event, cell)
    \/ \E cell \in Cells(paged, page) : handleCellMouseMove(cell)
    \/ handleMouseUp
    \/ \E p \in 1..NumPages : handlePageChanged(p)

Spec == Init /\ [][Next]_vars

\* ------------------------------------------- the getSelectedData query
\* The selections a click on the data cell (r1, c1) and a drag to the data
\* cell (r2, c2) leave behind.
Selections ==
    {<<setEnd(Range(r1, c1), r2, c2)>> :
        r1 \in 0..(NumRows - 1), r2 \in 0..(NumRows - 1),
        c1 \in 0..(NumCols - 1), c2 \in 0..(NumCols - 1)}

\* The ranges a caller passes: rectangles of data columns whose rows reach
\* as far as the page size.
GivenRanges ==
    {setEnd(Range(r1, c1), r2, c2) :
        r1 \in 0..(Max(NumRows, PageSize) - 1), r2 \in 0..(Max(NumRows, PageSize) - 1),
        c1 \in 0..(NumCols - 1), c2 \in 0..(NumCols - 1)}

\* The module attached to the table, after a selection made by a click and a
\* drag over data cells and the pointer-up that ended it.
InitData ==
    /\ ranges \in Selections
    /\ selecting = NotSelecting
    /\ paged \in BOOLEAN
    /\ page = 1
    /\ setup = [initialized |-> TRUE, selectRow |-> FALSE, subscribed |-> TRUE,
                rowHeader |-> TRUE, error |-> FALSE]
    /\ painted = layoutElement(ranges, "cell", paged, page)
    /\ last = "up"
    /\ gesture = Ended("up")
    /\ call = NoCall

\* The host calls getSelectedData, with a range or with no argument.
getSelectedDataCalled(given, argument) ==
    /\ setup.subscribed
    /\ call' = [state |-> "done", given |-> given,
                range |-> IF given THEN argument ELSE getActiveRange(ranges),
                result |-> getSelectedData(ranges, given, argument)]
    /\ UNCHANGED <<ranges, selecting, paged, page, setup, painted, last, gesture>>

NextData ==
    \/ \E argument \in GivenRanges : getSelectedDataCalled(TRUE, argument)
    \/ getSelectedDataCalled(FALSE, Range(0, 0))

SpecData == InitData /\ [][NextData]_vars

\* ------------------------------------------------- vocabulary of the claims
lastRow == DisplayRows(paged, page) - 1

lastCol == NumCols - 1

\* The ordinary data cell (r, c), the row-header cell of row r, the header of
\* data column c and the corner header, as elements.
DataCell(r, c) == Cell(r + 1, c + 1)

RowHeaderCell(r) == Cell(r + 1, 0)

ColumnHeader(c) == Column(c + 1)

CornerHeader == Column(0)

IsDataCell(element) == element.type = "cell" /\ element.index >= 1

IsRowHeaderCell(element) == element.type = "cell" /\ element.index = 0

\* The data coordinates of a data cell.
At(element) == [row |-> element.position - 1, col |-> element.index - 1]

\* Coordinates any anchor of the model can take.
AnyRow == -1..(Max(NumRows, PageSize) + 1)

AnyCol == -1..(NumCols + 1)

IsSingleCell(range, pos) ==
    /\ range.start = pos
    /\ range.end = pos
    /\ range.minRow = pos.row
    /\ range.maxRow = pos.row
    /\ range.minCol = pos.col
    /\ range.maxCol = pos.col

Origin == [row |-> 0, col |-> 0]

\* The keys of the pointer-down that began the gesture.
PlainKeys == ~gesture.event.shiftKey /\ ~gesture.event.ctrlKey /\ ~gesture.event.metaKey

\* The state is the one a pointer-down handler has just produced.
JustPressed == last = "down" /\ gesture.phase = "down"

\* ------------------------------------------------------------------- C1
\* C1: in every reachable state the list `ranges` is non-empty, and the active
\* range (getActiveRange) is its last element.
C1_RangesNonEmpty ==
    /\ Len(ranges) >= 1
    /\ DOMAIN ranges = 1..Len(ranges)
    /\ getActiveRange(ranges) = ranges[Len(ranges)]

\* Two ranges are held, a drag is in progress and the active one has grown.
C1_Witness ==
    /\ Len(ranges) = 2
    /\ last = "move"
    /\ selecting = "cell"
    /\ getActiveRange(ranges).start # getActiveRange(ranges).end

\* ------------------------------------------------------------------- C2
\* C2: after a pointer-down with no modifier key on an ordinary data cell
\* (r, c), from whatever state, exactly one range is left and it is the single
\* cell (r, c): start = end = (r, c), minRow = maxRow = r, minCol = maxCol = c.
C2_PlainClickSingleCell ==
    (JustPressed /\ PlainKeys /\ IsDataCell(gesture.origin))
        => /\ Len(ranges) = 1
           /\ IsSingleCell(ranges[1], At(gesture.origin))

\* A plain pointer-down on the data cell (1, 1).
C2_Witness ==
    /\ JustPressed
    /\ PlainKeys
    /\ gesture.origin = DataCell(1, 1)
    /\ ranges = <<Range(1, 1)>>

\* ------------------------------------------------------------------- C3
\* C3: a pointer-down with shift held on an ordinary data cell B leaves exactly
\* one range; its start anchor is the start anchor the active range had before
\* the event, its end anchor is B, and the cells inside it are exactly those of
\* the inclusive rectangle with corners at that start anchor and B.
C3_ShiftClickRectangle ==
    [][(last' = "down" /\ gesture'.event.shiftKey /\ IsDataCell(gesture'.origin))
        => LET before == getActiveRange(ranges).start
               B == At(gesture'.origin)
           IN  /\ Len(ranges') = 1
               /\ ranges'[1].start = before
               /\ ranges'[1].end = B
               /\ \A r \in AnyRow, c \in AnyCol :
                     isInside(ranges'[1], r, c)
                        <=> /\ Min(before.row, B.row) <= r
                            /\ r <= Max(before.row, B.row)
                            /\ Min(before.col, B.col) <= c
                            /\ c <= Max(before.col, B.col)]_vars

\* A shift pointer-down on the data cell (0, 0) with the anchor at (1, 1): the
\* range runs up and to the left of its start.
C3_Witness ==
    /\ JustPressed
    /\ gesture.event.shiftKey
    /\ gesture.origin = DataCell(0, 0)
    /\ Len(ranges) = 1
    /\ ranges[1].start = [row |-> 1, col |-> 1]
    /\ ranges[1].end = Origin
    /\ ranges[1].maxRow = 1
    /\ ranges[1].maxCol = 1

C5_MetaClickAppends ==
    [][(/\ last' = "down"
        /\ gesture'.event.metaKey
        /\ ~gesture'.event.shiftKey
        /\ ~gesture'.event.ctrlKey
        /\ gesture'.origin # CornerHeader)
        => /\ Len(ranges') = Len(ranges) + 1
           /\ SubSeq(ranges', 1, Len(ranges)) = ranges]_vars

\* ------------------------------------------------------------------- C6
\* C6: after a page-change event, also one delivered during a drag, `ranges`
\* is exactly one range with start = end = (0, 0).
C6_PageChangeResets ==
    last = "page"
        => /\ Len(ranges) = 1
           /\ IsSingleCell(ranges[1], Origin)

\* A page change delivered while a drag is in progress.
C6_Witness ==
    /\ last = "page"
    /\ selecting = "cell"
    /\ ranges = <<Range(0, 0)>>

\* ------------------------------------------------------------------- C7
\* C7: a page change ends the drag in progress: from the page change until the
\* next pointer-down the mode is none, so pointer-moves leave `ranges` at the
\* single default range (0,0)-(0,0).
C7_PageChangeEndsDrag ==
    gesture.phase = "page"
        => /\ selecting = NotSelecting
           /\ ranges = <<Range(0, 0)>>

\* ------------------------------------------------------------------- C8
\* C8: a pointer-up sets the mode to none, and a pointer-move while the mode
\* is none leaves the start and end of every range unchanged.
C8_IdleMovesChangeNothing ==
    [][/\ last' = "up" => selecting' = NotSelecting
       /\ (last' = "move" /\ selecting = NotSelecting)
            => /\ Len(ranges') = Len(ranges)
               /\ \A i \in 1..Len(ranges) :
                     /\ ranges'[i].start = ranges[i].start
                     /\ ranges'[i].end = ranges[i].end]_vars

\* A pointer-move after the pointer-up of a two-range selection.
C8_Witness ==
    /\ last = "move"
    /\ gesture.phase = "up"
    /\ selecting = NotSelecting
    /\ Len(ranges) = 2
    /\ ranges[2].start # ranges[2].end

\* ------------------------------------------------------------------- C9
\* C9: during a drag begun by a plain or ctrl pointer-down on the row-header
\* cell of row a, whatever the pointer moves over, the active range has
\* minCol = 0, maxCol = lastCol and the row span min(a,b)..max(a,b), b being
\* the row of the last cell or row-header cell the pointer was over.
C9_RowDragFullWidth ==
    (/\ gesture.phase = "down"
     /\ ~gesture.event.shiftKey
     /\ IsRowHeaderCell(gesture.origin))
        => LET a == gesture.origin.position - 1
               b == gesture.b
               range == getActiveRange(ranges)
           IN  /\ range.minCol = 0
               /\ range.maxCol = lastCol
               /\ range.minRow = Min(a, b)
               /\ range.maxRow = Max(a, b)

\* A row-header drag from row 1 up to row 0 that has also passed over a data
\* cell or a header on its way.
C9_Witness ==
    /\ gesture.phase = "down"
    /\ ~gesture.event.shiftKey
    /\ gesture.origin = RowHeaderCell(1)
    /\ gesture.b = 0
    /\ ~gesture.rowHeadersOnly
    /\ last = "move"
    /\ getActiveRange(ranges).minRow = 0
    /\ getActiveRange(ranges).maxRow = 1
    /\ getActiveRange(ranges).maxCol = lastCol

\* ------------------------------------------------------------------ C10
\* C10: after the pointer-up that ends a row-header drag (plain pointer-down on
\* the row header of row a, pointer-moves over row headers ending on row b),
\* selectingAllColumnsOfRow(r) is true for the rows min(a,b)..max(a,b) and
\* false for every other row.
C10_RowPredicateAfterDrag ==
    [][(/\ gesture.phase = "down"
        /\ PlainKeys
        /\ IsRowHeaderCell(gesture.origin)
        /\ gesture.rowHeadersOnly
        /\ last' = "up")
        => LET a == gesture.origin.position - 1
               b == gesture.b
           IN  \A r \in 0..lastRow :
                  selectingAllColumnsOfRow(ranges', selecting', r)
                     <=> (Min(a, b) <= r /\ r <= Max(a, b))]_vars

\* ------------------------------------------------------------------ C11
IsColumnHeader(element) == element.type = "column" /\ element.index >= 1

\* C11: during a drag begun by a plain or ctrl pointer-down on a non-corner
\* column header, whatever the pointer moves over, the active range has start
\* row 0 and end row lastRow: its row span stays pinned to the full height.
C11_ColumnDragFullHeight ==
    (/\ gesture.phase = "down"
     /\ ~gesture.event.shiftKey
     /\ IsColumnHeader(gesture.origin))
        => /\ getActiveRange(ranges).start.row = 0
           /\ getActiveRange(ranges).end.row = lastRow

\* ------------------------------------------------------------------ C12
\* C12: a pointer-down on the corner header, with any modifier keys and from
\* any state, sets the mode to all and leaves exactly one range with start
\* (0,0) and end (lastRow, lastCol); selectingAllColumnsOfRow is then true for
\* every row and selectingAllRowsOfColumn for every column.
C12_CornerSelectsAll ==
    (JustPressed /\ gesture.origin = CornerHeader)
        => /\ selecting = "all"
           /\ Len(ranges) = 1
           /\ ranges[1].start = Origin
           /\ ranges[1].end = [row |-> lastRow, col |-> lastCol]
           /\ \A r \in 0..lastRow : selectingAllColumnsOfRow(ranges, selecting, r)
           /\ \A c \in 0..lastCol : selectingAllRowsOfColumn(ranges, selecting, paged, c)

\* A pointer-down on the corner header with ctrl and shift held.
C12_Witness ==
    /\ JustPressed
    /\ gesture.origin = CornerHeader
    /\ gesture.event.ctrlKey
    /\ gesture.event.shiftKey
    /\ selecting = "all"
    /\ ranges[1].maxRow = lastRow
    /\ ranges[1].maxCol = lastCol
    /\ lastRow >= 1

\* ------------------------------------------------------------------ C13
\* An event handler of the module has run.
Handled == setup.subscribed /\ last \in {"down", "move", "up", "page"}

\* C13: after every event handler the highlight flags last painted on each
\* visible row, each column header and each visible cell equal what the
\* predicates give on the current ranges and mode: row-selected is
\* selectingAllColumnsOfRow, col-selected is selectingAllRowsOfColumn,
\* cell-selected is isInside over the ranges, only-cell-selected is the
\* sole-cell test.
C13_PaintedMatchesModel ==
    Handled
        => /\ \A r \in 0..lastRow :
                painted.rows[r].rowSelected
                   <=> selectingAllColumnsOfRow(ranges, selecting, r)
           /\ \A c \in 0..lastCol :
                painted.columns[c]
                   <=> selectingAllRowsOfColumn(ranges, selecting, paged, c)
           /\ \A r \in 0..lastRow, c \in 0..lastCol :
                /\ painted.rows[r].cells[c].selected
                      <=> \E i \in 1..Len(ranges) : isInside(ranges[i], r, c)
                /\ painted.rows[r].cells[c].only
                      <=> /\ Len(ranges) = 1
                          /\ ranges[1].minRow = r /\ ranges[1].maxRow = r
                          /\ ranges[1].minCol = c /\ ranges[1].maxCol = c

\* ------------------------------------------------------------------ C14
\* C14: when the SelectRow module is active as initialize() runs, initialize
\* reports an error and attaches nothing: no handler is subscribed, no
\* row-header column is inserted, and no later event changes `ranges` or the
\* mode from their constructed values ([Range(0,0)], false).
C14_SelectRowClash ==
    (setup.initialized /\ setup.selectRow)
        => /\ setup.error
           /\ ~setup.subscribed
           /\ ~setup.rowHeader
           /\ ranges = <<Range(0, 0)>>
           /\ selecting = NotSelecting
           /\ painted = Unpainted(paged, page)

\* A pointer-down delivered after initialize has refused to attach.
C14_Witness ==
    /\ setup.initialized
    /\ setup.selectRow
    /\ setup.error
    /\ last = "down"

\* ------------------------------------------------------------------ C15
\* A range lies within the grid.
InGrid(range) ==
    /\ 0 <= range.minRow
    /\ range.minRow <= range.maxRow
    /\ range.maxRow <= lastRow
    /\ 0 <= range.minCol
    /\ range.minCol <= range.maxCol
    /\ range.maxCol <= lastCol

\* The field identifier of data column c (the column at index c + 1).
dataField(c) == c + 1

\* C15: for every range lying within the grid, getSelectedData(range) (with
\* no argument: the active range) returns one record per row minRow..maxRow
\* in row order, each keyed by exactly the fields of the data columns
\* minCol..maxCol and holding that row's values (the row-header field is never
\* a key), with rowCount = maxRow - minRow + 1 and
\* columnCount = maxCol - minCol + 1.
C15_SelectedDataShape ==
    call.state = "done"
       => /\ ~call.given => call.range = getActiveRange(ranges)
          /\ InGrid(call.range)
                => LET range == call.range
                       result == call.result
                   IN  /\ ~result.threw
                       /\ Len(result.data) = range.maxRow - range.minRow + 1
                       /\ \A k \in 1..Len(result.data) :
                             /\ DOMAIN result.data[k]
                                   = {dataField(c) : c \in range.minCol..range.maxCol}
                             /\ 0 \notin DOMAIN result.data[k]
                             /\ \A c \in range.minCol..range.maxCol :
                                   result.data[k][dataField(c)]
                                      = <<range.minRow + k - 1, dataField(c)>>
                       /\ result.rowCount = range.maxRow - range.minRow + 1
                       /\ result.columnCount = range.maxCol - range.minCol + 1

\* getSelectedData() has returned two records of two fields for an active
\* range dragged from (1, 1) up to (0, 0).
C15_Witness ==
    /\ call.state = "done"
    /\ ~call.given
    /\ getActiveRange(ranges).start = [row |-> 1, col |-> 1]
    /\ getActiveRange(ranges).end = [row |-> 0, col |-> 0]
    /\ Len(call.result.data) = 2
    /\ call.result.rowCount = 2
    /\ call.result.columnCount = 2

\* ------------------------------------------------------------------ C16
\* C16: every Range of `ranges` has minRow = min(start.row, end.row), maxRow =
\* max(start.row, end.row), minCol = min(start.col, end.col), maxCol =
\* max(start.col, end.col), hence minRow <= maxRow and minCol <= maxCol; and
\* setStart(r, c) followed by setEnd(r, c) on it gives minRow = maxRow = r,
\* minCol = maxCol = c with isInside(r, c).
C16_RangeNormalized ==
    \A i \in 1..Len(ranges) :
        LET range == ranges[i]
        IN  /\ range.minRow = Min(range.start.row, range.end.row)
            /\ range.maxRow = Max(range.start.row, range.end.row)
            /\ range.minCol = Min(range.start.col, range.end.col)
            /\ range.maxCol = Max(range.start.col, range.end.col)
            /\ range.minRow <= range.maxRow
            /\ range.minCol <= range.maxCol
            /\ \A r \in AnyRow, c \in AnyCol :
                  LET single == setEnd(setStart(range, r, c), r, c)
                  IN  /\ single.minRow = r /\ single.maxRow = r
                      /\ single.minCol = c /\ single.maxCol = c
                      /\ isInside(single, r, c)

\* A range whose start lies below and to the right of its end.
C16_Witness ==
    /\ Len(ranges) = 2
    /\ ranges[2].start = [row |-> 1, col |-> 1]
    /\ ranges[2].end = Origin
    /\ ranges[2].minRow = 0
    /\ ranges[2].maxRow = 1
    /\ ranges[2].minCol = 0
    /\ ranges[2].maxCol = 1
    /\ ranges[1].start # ranges[1].end

\* ------------------------------------------------------------------ C17
\* C17: every range lies inside the grid, also when the table is paginated and
\* the page shows fewer rows than the page size: 0 <= minRow <= maxRow <=
\* lastRow and 0 <= minCol <= maxCol <= lastCol, so that getCell finds a cell
\* at its top-left and bottom-right coordinates.
C17_RangesInsideGrid ==
    \A i \in 1..Len(ranges) :
        /\ 0 <= ranges[i].minRow
        /\ ranges[i].minRow <= ranges[i].maxRow
        /\ ranges[i].maxRow <= lastRow
        /\ 0 <= ranges[i].minCol
        /\ ranges[i].minCol <= ranges[i].maxCol
        /\ ranges[i].maxCol <= lastCol

\* ------------------------------------------------------------------ C18
\* C18: during a drag begun by a pointer-down on an ordinary data cell, a
\* pointer-move sets the end anchor of the active range to (r, c) over the
\* data cell (r, c), to (r, 0) over the row-header cell of row r, to (0, c)
\* over the header of data column c, and leaves it unchanged over the corner
\* header.
C18_CellDragEnd ==
    [][(gesture.phase = "down" /\ IsDataCell(gesture.origin))
         => /\ \A cell \in Cells(paged, page) :
                  handleCellMouseMove(cell)
                     => getActiveRange(ranges').end
                           = IF IsRowHeaderCell(cell)
                             THEN [row |-> cell.position - 1, col |-> 0]
                             ELSE At(cell)
            /\ \A column \in Columns :
                  handleColumnMouseMove(column)
                     => getActiveRange(ranges').end
                           = IF column = CornerHeader
                             THEN getActiveRange(ranges).end
                             ELSE [row |-> 0, col |-> column.index - 1]]_vars

\* A drag begun on the data cell (1, 1) whose last pointer-move was over the
\* header of data column 0: the pointer has been over no cell of row 0, and
\* the end anchor is (0, 0).
C18_Witness ==
    /\ last = "move"
    /\ gesture.phase = "down"
    /\ gesture.origin = DataCell(1, 1)
    /\ gesture.b = 1
    /\ selecting = "cell"
    /\ getActiveRange(ranges).start = [row |-> 1, col |-> 1]
    /\ getActiveRange(ranges).end = [row |-> 0, col |-> 0]

\* ------------------------------------------------------------------ C19
\* C19: a pointer-move changes at most the end anchor (and the bounds) of the
\* active range: the number of ranges, every non-active range, the start
\* anchor of the active range and the mode are unchanged.
C19_MoveFrame ==
    [][last' = "move"
        => /\ Len(ranges') = Len(ranges)
           /\ \A i \in 1..(Len(ranges) - 1) : ranges'[i] = ranges[i]
           /\ getActiveRange(ranges').start = getActiveRange(ranges).start
           /\ selecting' = selecting]_vars

\* A pointer-move of a drag that has extended the second of two ranges away
\* from the first.
C19_Witness ==
    /\ last = "move"
    /\ gesture.phase = "down"
    /\ Len(ranges) = 2
    /\ ranges[1] = Range(0, 0)
    /\ ranges[2].start = [row |-> 1, col |-> 0]
    /\ ranges[2].end = [row |-> 1, col |-> 1]

\* ------------------------------------------------------------------ C20
\* C20: the header predicates are sound for the cell predicate: when
\* selectingAllColumnsOfRow(r) is true every data cell of row r is inside some
\* range, and when selectingAllRowsOfColumn(c) is true every data cell of
\* column c is; in particular the selection covers the grid while the mode is
\* all.
C20_HeaderPredicatesSound ==
    /\ \A r \in 0..lastRow :
          selectingAllColumnsOfRow(ranges, selecting, r)
             => \A c \in 0..lastCol : \E i \in 1..Len(ranges) : isInside(ranges[i], r, c)
    /\ \A c \in 0..lastCol :
          selectingAllRowsOfColumn(ranges, selecting, paged, c)
             => \A r \in 0..lastRow : \E i \in 1..Len(ranges) : isInside(ranges[i], r, c)

====
